---- MODULE Spec2Model ----
(***************************************************************************)
(* The execution entrypoints of golc (src/golc.go): Call, SimpleCall and   *)
(* BatchCall, driving a schema.Chain with its optional Memory and the      *)
(* callback manager that tracks each run; and the documents chains         *)
(* StuffDocuments and RefineDocuments, whose own Call re-enters the        *)
(* entrypoints for their inner chains.                                     *)
(*                                                                         *)
(* A Go map is a reference: the `inputs` parameter of Call is the caller's *)
(* own map object, so inputs[i] below is that one object, and supplied[i]  *)
(* remembers what it held when the caller handed it over.                  *)
(***************************************************************************)
EXTENDS Naturals, Sequences, FiniteSets, TLC

\* Largest number of input mappings handed to BatchCall.
MaxBatch == 2
\* Largest number of observers (callbacks) registered with the manager.
MaxObservers == 1
\* Largest number of documents handed to a documents chain.
MaxDocs == 2
\* Largest MaxRetries a Cohere model is built with.
MaxAttempts == 3

(***************************************************************************)
(* Values                                                                  *)
(***************************************************************************)
\* The nil map (a Go nil schema.ChainValues), told apart from the empty map.
NilMap == [k \in {"<nil>"} |-> "<nil>"]
EmptyMap == [k \in {} |-> ""]

\* Values standing for Go strings; every other value stands for a non-string.
TextVals == {"q1", "q2", "m", "h", "t1", "t2", " t2 "}
IsText(v) == v \in TextVals

\* strings.TrimSpace
TrimSpace(t) == IF t = " t2 " THEN "t2" ELSE t

\* A merge that would keep the value a key already has.
MergeKeepingOld(m, vars) ==
  [k \in (DOMAIN m) \cup (DOMAIN vars) |-> IF k \in DOMAIN m THEN m[k] ELSE vars[k]]

\* for k, v := range vars { inputs[k] = v }
Merge(m, vars) ==
  [k \in (DOMAIN m) \cup (DOMAIN vars) |-> IF k \in DOMAIN vars THEN vars[k] ELSE m[k]]

Range(f) == {f[x] : x \in DOMAIN f}

\* Errors are told apart by their origin and by the invocation that raised them.
NoErr == [kind |-> "nil", run |-> 0]
Err(kind, i) == [kind |-> kind, run |-> i]
ErrMultipleInputs == Err("ErrMultipleInputs", 0)
ErrMultipleOutputs == Err("ErrMultipleOutputs", 0)
ErrWrongOutputType == Err("ErrWrongOutputType", 0)
\* fmt.Errorf("%w: no value for inputKey %s", ErrInvalidInputValues, ...)
ErrNoInputValue == Err("ErrInvalidInputValues: no value for inputKey", 0)
\* fmt.Errorf("%w: documents slice has no elements", ErrInvalidInputValues)
ErrNoDocuments == Err("ErrInvalidInputValues: documents slice has no elements", 0)
ErrInputValuesWrongType == Err("ErrInputValuesWrongType", 0)
\* schema.ChainValues.GetString on a key that is missing or holds no string.
ErrNotAString == Err("GetString: no string under the key", 0)

(***************************************************************************)
(* Chains                                                                  *)
(***************************************************************************)
\* chain.NewLLM: OutputKeys() is the configured OutputKey, under which Call
\* returns the generated text; Memory() is the configured Memory (or nil).
NewLLM(inputKeys, outputKey, memory) ==
  [type |-> "LLM", inputKeys |-> inputKeys, outputKeys |-> <<outputKey>>,
   resultKey |-> outputKey, memory |-> memory]

\* chain.NewRefineDocuments: Call returns its answer under opts.OutputKey,
\* OutputKeys() answers with the initial inner chain's OutputKeys().
NewRefineDocuments(llmChain, refineLLMChain, inputKey, outputKey) ==
  [type |-> "RefineDocuments", inputKeys |-> <<inputKey>>,
   outputKeys |-> llmChain.outputKeys, resultKey |-> outputKey, memory |-> FALSE,
   llmChain |-> llmChain, refineLLMChain |-> refineLLMChain]

\* chain.NewStuffDocuments: Call returns what the inner chain's Call returns,
\* OutputKeys() answers with the inner chain's OutputKeys().
NewStuffDocuments(llmChain) ==
  [type |-> "StuffDocuments", inputKeys |-> <<"inputDocuments">>,
   outputKeys |-> llmChain.outputKeys, resultKey |-> llmChain.resultKey,
   memory |-> FALSE, llmChain |-> llmChain]

\* rag.NewRetrievalQA as NewConversationalRetrieval uses it: the question under
\* InputKey, the answer under the chain's output key, the documents it
\* retrieved next to it when asked for.
NewRetrievalQA(returnSourceDocuments, inputKey) ==
  [type |-> "RetrievalQA", inputKeys |-> <<inputKey>>,
   outputKeys |-> <<"text">>
                  \o (IF returnSourceDocuments THEN <<"sourceDocuments">> ELSE <<>>),
   resultKey |-> "text", memory |-> FALSE,
   returnSourceDocuments |-> returnSourceDocuments]

\* rag.NewConversationalRetrieval: one input key, the answer under OutputKey
\* and one more output key per Return... option; the Memory defaults to a
\* conversation buffer.
NewConversationalRetrieval(returnSourceDocuments, returnGeneratedQuestion) ==
  [type |-> "ConversationalRetrieval", inputKeys |-> <<"question">>,
   outputKeys |-> <<"answer">>
                  \o (IF returnSourceDocuments THEN <<"sourceDocuments">> ELSE <<>>)
                  \o (IF returnGeneratedQuestion THEN <<"generatedQuestion">> ELSE <<>>),
   resultKey |-> "answer", memory |-> TRUE,
   returnSourceDocuments |-> returnSourceDocuments,
   returnGeneratedQuestion |-> returnGeneratedQuestion,
   condenseQuestionChain |-> NewLLM(<<"history", "query">>, "text", FALSE),
   retrievalQAChain |-> NewRetrievalQA(returnSourceDocuments, "question")]

\* A chain of the host's own (the entrypoints take any schema.Chain): it
\* declares the given keys and answers every output key with the value it
\* finds under its first input key.
NewFake(inputKeys, outputKeys) ==
  [type |-> "Fake", inputKeys |-> inputKeys, outputKeys |-> outputKeys,
   resultKey |-> outputKeys[1], memory |-> FALSE]

\* The checks a chain's Call makes on its inputs before it does its work:
\* RefineDocuments wants a non-empty []schema.Document under its InputKey
\* (`d` being the documents "#docs" stands for), ConversationalRetrieval a
\* string under its InputKey.
ChainAccepts(c, m, d) ==
  /\ c.type = "RefineDocuments" =>
       (c.inputKeys[1] \in DOMAIN m /\ m[c.inputKeys[1]] = "#docs" /\ d # <<>>)
  /\ c.type = "ConversationalRetrieval" =>
       (c.inputKeys[1] \in DOMAIN m /\ IsText(m[c.inputKeys[1]]))
  /\ c.type = "RetrievalQA" =>
       (c.inputKeys[1] \in DOMAIN m /\ IsText(m[c.inputKeys[1]]))
  /\ c.type = "Fake" => c.inputKeys[1] \in DOMAIN m

\* The question ConversationalRetrieval may hand to its retrieval chain.
GeneratedQuestions == {"q2"}

\* The mapping a chain's Call returns on success, `t` being the text its
\* generation backend answered with.
ChainReturns(c, m, t) ==
  CASE c.type = "ConversationalRetrieval" ->
         [k \in Range(c.outputKeys) |->
            IF k = "sourceDocuments" THEN "#docs"
            ELSE IF k = "generatedQuestion" THEN CHOOSE q \in GeneratedQuestions : TRUE
            ELSE TrimSpace(t)]
    [] c.type = "RetrievalQA" ->
         [k \in Range(c.outputKeys) |->
            IF k = "sourceDocuments" THEN "#docs" ELSE TrimSpace(t)]
    [] c.type = "Fake" -> [k \in Range(c.outputKeys) |-> m[c.inputKeys[1]]]
    [] OTHER -> [k \in {c.resultKey} |-> TrimSpace(t)]

\* The text a generation backend may answer with.
Texts == {"t1", " t2 "}

\* What a Memory may hand back from LoadMemoryVariables.
MemVars == {EmptyMap, [k \in {"history"} |-> "h"], [k \in {"question"} |-> "m"]}

\* The mappings a caller may pass to Call ("#docs": a []schema.Document with
\* at least one element).
InputMaps ==
  {[k \in {"question"} |-> "q1"], [k \in {"question"} |-> "q2"],
   [k \in {"question", "history"} |-> IF k = "question" THEN "q1" ELSE "h"],
   [k \in {"inputDocuments"} |-> "#docs"]}

\* The values a caller may pass to SimpleCall.
SimpleInputs == {"q1", "#docs"}

LLMChains ==
  {NewLLM(ik, "text", m) : ik \in {<<"question">>, <<"question", "history">>},
                           m \in BOOLEAN}

RefineChains ==
  {NewRefineDocuments(NewLLM(<<"context">>, "text", FALSE),
                      NewLLM(<<"context", "existingAnswer">>, "text", FALSE),
                      "inputDocuments", ok) :
     ok \in {"text", "answer"}}

RetrievalChains ==
  {NewConversationalRetrieval(rsd, FALSE) : rsd \in BOOLEAN}

FakeChains ==
  {NewFake(<<"question">>, <<"text">>),
   NewFake(<<"question", "history">>, <<"text", "sources">>)}

Chains == LLMChains \cup RefineChains \cup RetrievalChains \cup FakeChains

(***************************************************************************)
(* State                                                                   *)
(***************************************************************************)
VARIABLES
  mode,           \* the entrypoint the host called: "Call", "SimpleCall", "BatchCall";
                  \* "CallTree" is Call on a documents chain, its nested calls followed
  chain,          \* the chain handed to the entrypoint
  callbacks,      \* number of observers the manager notifies
  includeRunInfo, \* CallOptions.IncludeRunInfo
  simpleInput,    \* SimpleCall's `input any`
  inputs,         \* inputs[i]: the map object passed to invocation i of Call
  supplied,       \* supplied[i]: what that map held when it was passed in
  pc,             \* pc[i]: where invocation i of Call stands
  outputs,        \* outputs[i]: the map chain.Call returned to invocation i
  callErr,        \* callErr[i]: the error chain.Call returned to invocation i
  ret,            \* ret[i]: what invocation i of Call returned
  runID,          \* runID[i]: the run identifier of invocation i ("" before start)
  trace,          \* trace[i]: the notifications, Memory and chain operations of run i
  saved,          \* saved[i]: the arguments SaveContext was called with
  loaded,         \* loaded[i]: the variables LoadMemoryVariables returned
  top,            \* the entrypoint's own position: "entry", "running", "done"
  simpleRet,      \* what SimpleCall returned
  spawned,        \* BatchCall: goroutines started by errs.Go so far
  groupErr,       \* BatchCall: the errgroup's recorded error
  cancelled,      \* BatchCall: errctx is cancelled
  chainValues,    \* BatchCall: the result slice
  gdone,          \* BatchCall: gdone[i]: goroutine i has returned
  returnOrder,    \* BatchCall: the goroutines in the order they returned
  batchRet,       \* what BatchCall returned
  docs,           \* the page contents of the []schema.Document that "#docs" stands for
  body,           \* where the Call of a composite chain stands, and its running answer
  simpleArg,      \* simpleArg[i]: the `input any` a nested SimpleCall wrapped for invocation i
  parentRunID,    \* parentRunID[i]: the parent run the manager of invocation i was given
  maxRetries,     \* Cohere: opts.MaxRetries
  attempts,       \* Cohere: what client.Generate answered, call by call
  genPc,          \* Cohere: where Generate stands
  genRet          \* Cohere: what Generate returned

vars ==
  <<mode, chain, callbacks, includeRunInfo, simpleInput, inputs, supplied, pc,
    outputs, callErr, ret, runID, trace, saved, loaded, top, simpleRet,
    spawned, groupErr, cancelled, chainValues, gdone, returnOrder, batchRet,
    docs, body, simpleArg, parentRunID, maxRetries, attempts, genPc, genRet>>

callVars == <<inputs, pc, outputs, callErr, ret, runID, trace, saved, loaded>>
configVars == <<mode, chain, callbacks, includeRunInfo, simpleInput, docs>>
retryVars == <<maxRetries, attempts, genPc, genRet>>
treeVars == <<body, simpleArg, parentRunID>>
batchVars == <<spawned, groupErr, cancelled, chainValues, gdone, returnOrder, batchRet>>

Procs == DOMAIN inputs

NoReturn == [vals |-> NilMap, err |-> NoErr]
NoSave == [inputs |-> NilMap, outputs |-> NilMap]
NoBatchReturn == [nil |-> TRUE, vals |-> <<>>, err |-> NoErr]
NoSimpleReturn == [val |-> "", err |-> NoErr]
NoBody == [stage |-> "none", doc |-> 0, res |-> ""]

\* An entry of a run's trace: what was called, whether it returned without
\* error, and how many observers' hooks it ran (0 for Memory and chain calls).
Event(ev, ok, hooks) == [ev |-> ev, ok |-> ok, hooks |-> hooks]

\* Invocation i is a Call made from inside a composite chain's Call.
Nested(i) == mode = "CallTree" /\ i > 1

\* Invocation i runs a composite chain whose Call is followed step by step.
Composite(i) == mode = "CallTree" /\ i = 1

\* The chain invocation i of Call runs: the entrypoint's chain, or for a nested
\* Call the inner chain the composite chain handed over (RefineDocuments:
\* llmChain for the first document, refineLLMChain for every later one).
ChainOf(i) ==
  IF ~Nested(i) THEN chain
  ELSE IF chain.type = "ConversationalRetrieval"
    THEN (IF i = 2 THEN chain.condenseQuestionChain ELSE chain.retrievalQAChain)
  ELSE IF chain.type = "RefineDocuments" /\ i > 2 THEN chain.refineLLMChain
  ELSE chain.llmChain

\* The options invocation i of Call runs with: the host's, or for a nested
\* Call those StuffDocuments and RefineDocuments pass on, which are none, or
\* those ConversationalRetrieval passes on, which are the inheritable
\* callbacks and the run identifier of the Call it runs in.
CallOptions(i) ==
  IF Nested(i) /\ chain.type = "ConversationalRetrieval"
    THEN [callbacks |-> callbacks, parentRunID |-> runID[1]]
  ELSE IF Nested(i) THEN [callbacks |-> 0, parentRunID |-> ""]
  ELSE [callbacks |-> callbacks, parentRunID |-> ""]

\* How a notification to the observers may end: 0 when every hook returns nil,
\* else the position of the first observer whose hook returns an error.
HookOutcomes(i) == 0..CallOptions(i).callbacks

\* The manager runs the hooks in registration order and stops at the first error.
HooksRun(i, failing) == IF failing = 0 THEN CallOptions(i).callbacks ELSE failing

\* NewCohere: MaxRetries: 3
DefaultMaxRetries == 3

NoGenerateReturn == [res |-> "", err |-> <<>>]

InitCommon(n) ==
  /\ pc = [i \in 1..n |-> "idle"]
  /\ outputs = [i \in 1..n |-> NilMap]
  /\ callErr = [i \in 1..n |-> NoErr]
  /\ ret = [i \in 1..n |-> NoReturn]
  /\ runID = [i \in 1..n |-> ""]
  /\ trace = [i \in 1..n |-> <<>>]
  /\ saved = [i \in 1..n |-> NoSave]
  /\ loaded = [i \in 1..n |-> NilMap]
  /\ top = "entry"
  /\ simpleRet = NoSimpleReturn
  /\ spawned = 0
  /\ groupErr = NoErr
  /\ cancelled = FALSE
  /\ chainValues = <<>>
  /\ gdone = [i \in 1..n |-> FALSE]
  /\ returnOrder = <<>>
  /\ batchRet = NoBatchReturn
  /\ simpleArg = [i \in 1..n |-> NilMap]
  /\ parentRunID = [i \in 1..n |-> ""]
  /\ attempts = <<>>
  /\ genPc = "idle"
  /\ genRet = NoGenerateReturn

\* The host calls Call or SimpleCall once.
Init ==
  /\ mode \in {"Call", "SimpleCall"}
  /\ chain \in Chains
  /\ callbacks \in 0..MaxObservers
  /\ includeRunInfo \in (IF mode = "Call" THEN BOOLEAN ELSE {FALSE})
  /\ simpleInput \in (IF mode = "SimpleCall" THEN SimpleInputs ELSE {""})
  /\ inputs \in (IF mode = "Call" THEN [1..1 -> InputMaps] ELSE {<<NilMap>>})
  /\ supplied = inputs
  /\ docs = <<"d0">>
  /\ body = NoBody
  /\ maxRetries = DefaultMaxRetries
  /\ InitCommon(1)

(***************************************************************************)
(* Call                                                                    *)
(***************************************************************************)
\* Call as it would run with the `return` after the error notification left out.
CallNextPcNoReturnAfterError(at, failed) ==
  CASE at = "start"   -> IF failed THEN "returned" ELSE "load"
    [] at = "load"    -> "call"
    [] at = "call"    -> "inCall"
    [] at = "inCall"  -> IF failed THEN "onError" ELSE "save"
    [] at = "onError" -> "save"
    [] at = "save"    -> IF failed THEN "returned" ELSE "end"
    [] at = "end"     -> "returned"

\* Call as it would run with the error of OnChainStart dropped.
CallNextPcStartErrorDropped(at, failed) ==
  CASE at = "start"   -> "load"
    [] at = "load"    -> "call"
    [] at = "call"    -> "inCall"
    [] at = "inCall"  -> IF failed THEN "onError" ELSE "save"
    [] at = "onError" -> "returned"
    [] at = "save"    -> IF failed THEN "returned" ELSE "end"
    [] at = "end"     -> "returned"

\* Call as it would run with the Memory saved before the chain's error is looked at.
CallNextPcSaveBeforeErrCheck(at, failed) ==
  CASE at = "start"   -> IF failed THEN "returned" ELSE "load"
    [] at = "load"    -> "call"
    [] at = "call"    -> "inCall"
    [] at = "inCall"  -> "save"
    [] at = "onError" -> "returned"
    [] at = "save"    -> IF failed THEN "returned" ELSE "end"
    [] at = "end"     -> "returned"

\* Call as it would run if it went on to save after the observers took the error.
CallNextPcSaveAfterError(at, failed) ==
  CASE at = "start"   -> IF failed THEN "returned" ELSE "load"
    [] at = "load"    -> "call"
    [] at = "call"    -> "inCall"
    [] at = "inCall"  -> IF failed THEN "onError" ELSE "save"
    [] at = "onError" -> IF failed THEN "returned" ELSE "save"
    [] at = "save"    -> IF failed THEN "returned" ELSE "end"
    [] at = "end"     -> "returned"

\* Call as it would run if it saved to the Memory only on behalf of observers.
CallNextPcSaveForObservers(at, failed) ==
  CASE at = "start"   -> IF failed THEN "returned" ELSE "load"
    [] at = "load"    -> "call"
    [] at = "call"    -> "inCall"
    [] at = "inCall"  -> IF failed THEN "onError"
                         ELSE IF callbacks = 0 THEN "end" ELSE "save"
    [] at = "onError" -> "returned"
    [] at = "save"    -> IF failed THEN "returned" ELSE "end"
    [] at = "end"     -> "returned"

\* The control flow of Call: where it goes after the step at `at`, given
\* whether that step reported an error.
CallNextPc(at, failed) ==
  CASE at = "start"   -> IF failed THEN "returned" ELSE "load"
    [] at = "load"    -> "call"
    [] at = "call"    -> "inCall"
    [] at = "inCall"  -> IF failed THEN "onError" ELSE "save"
    [] at = "onError" -> "returned"
    [] at = "save"    -> IF failed THEN "returned" ELSE "end"
    [] at = "end"     -> "returned"

\* Call is entered: the host's call, or SimpleCall's or a goroutine's.
EnterCall(i) == pc' = [pc EXCEPT ![i] = "start"]

Goto(i, next, vals, err) ==
  /\ pc' = [pc EXCEPT ![i] = next]
  /\ ret' = IF next = "returned" THEN [ret EXCEPT ![i] = [vals |-> vals, err |-> err]]
            ELSE ret

Log(i, ev, ok, hooks) == trace' = [trace EXCEPT ![i] = Append(@, Event(ev, ok, hooks))]

\* The manager made for invocation i of Call draws a run identifier no other
\* manager holds.
NewRunID(i) == "run-" \o ToString(i)

\* cm := callback.NewManager(...); rm, err := cm.OnChainStart(chain.Type(), inputs)
OnChainStart(i) ==
  /\ pc[i] = "start"
  /\ \E failing \in HookOutcomes(i) :
       LET ok == failing = 0 IN
       /\ Log(i, "start", ok, HooksRun(i, failing))
       /\ Goto(i, CallNextPc("start", ~ok), NilMap, Err("start", i))
  /\ runID' = [runID EXCEPT ![i] = NewRunID(i)]
  /\ parentRunID' = [parentRunID EXCEPT ![i] = CallOptions(i).parentRunID]
  /\ UNCHANGED <<inputs, outputs, callErr, saved, loaded, body, simpleArg>>
  /\ UNCHANGED <<configVars, retryVars, supplied, top, simpleRet, batchVars>>

\* if chain.Memory() != nil { vars, _ := LoadMemoryVariables(ctx, inputs); merge }
LoadMemoryVariables(i) ==
  /\ pc[i] = "load"
  /\ IF ChainOf(i).memory
       THEN \E memVars \in MemVars, ok \in BOOLEAN :
              /\ inputs' = [inputs EXCEPT ![i] = Merge(@, memVars)]
              /\ loaded' = [loaded EXCEPT ![i] = memVars]
              /\ Log(i, "load", ok, 0)
              /\ Goto(i, CallNextPc("load", ~ok), NilMap, Err("load", i))
       ELSE /\ Goto(i, CallNextPc("load", FALSE), NilMap, NoErr)
            /\ UNCHANGED <<inputs, trace, loaded>>
  /\ UNCHANGED <<outputs, callErr, runID, saved>>
  /\ UNCHANGED <<configVars, retryVars, treeVars, supplied, top, simpleRet, batchVars>>

\* chain.Call(ctx, inputs, ...) is entered.
ChainCallBegin(i) ==
  /\ pc[i] = "call"
  /\ Log(i, "call", TRUE, 0)
  /\ Goto(i, CallNextPc("call", FALSE), NilMap, NoErr)
  /\ UNCHANGED <<inputs, outputs, callErr, runID, saved, loaded>>
  /\ UNCHANGED <<configVars, retryVars, treeVars, supplied, top, simpleRet, batchVars>>

\* The errors chain.Call may return: its own, or the context's once cancelled.
ChainErrors(i) ==
  {Err("chain", i)} \cup (IF cancelled THEN {Err("cancelled", i)} ELSE {})

\* chain.Call returns outputs under the chain's result key.
ChainCallSucceeds(i) ==
  /\ pc[i] = "inCall"
  /\ ~Composite(i)
  /\ ChainAccepts(ChainOf(i), inputs[i], docs)
  /\ \E t \in Texts :
       outputs' = [outputs EXCEPT ![i] = ChainReturns(ChainOf(i), inputs[i], t)]
  /\ Log(i, "callReturn", TRUE, 0)
  /\ Goto(i, CallNextPc("inCall", FALSE), NilMap, NoErr)
  /\ UNCHANGED <<inputs, callErr, runID, saved, loaded>>
  /\ UNCHANGED <<configVars, retryVars, treeVars, supplied, top, simpleRet, batchVars>>

\* chain.Call returns an error.
ChainCallFails(i) ==
  /\ pc[i] = "inCall"
  /\ ~Composite(i)
  /\ \E e \in ChainErrors(i) :
       /\ callErr' = [callErr EXCEPT ![i] = e]
       /\ Goto(i, CallNextPc("inCall", TRUE), NilMap, e)
  /\ Log(i, "callReturn", FALSE, 0)
  /\ UNCHANGED <<inputs, outputs, runID, saved, loaded>>
  /\ UNCHANGED <<configVars, retryVars, treeVars, supplied, top, simpleRet, batchVars>>

\* if cbErr := rm.OnChainError(err); cbErr != nil { return nil, cbErr }; return nil, err
OnChainError(i) ==
  /\ pc[i] = "onError"
  /\ \E failing \in HookOutcomes(i) :
       LET ok == failing = 0 IN
       /\ Log(i, "fail", ok, HooksRun(i, failing))
       /\ Goto(i, CallNextPc("onError", ~ok), NilMap,
               IF ok THEN callErr[i] ELSE Err("callback", i))
  /\ UNCHANGED <<inputs, outputs, callErr, runID, saved, loaded>>
  /\ UNCHANGED <<configVars, retryVars, treeVars, supplied, top, simpleRet, batchVars>>

\* if chain.Memory() != nil { if err := SaveContext(ctx, inputs, outputs); ... }
SaveContext(i) ==
  /\ pc[i] = "save"
  /\ IF ChainOf(i).memory
       THEN \E ok \in BOOLEAN :
              /\ saved' = [saved EXCEPT ![i] = [inputs |-> inputs[i], outputs |-> outputs[i]]]
              /\ Log(i, "save", ok, 0)
              /\ Goto(i, CallNextPc("save", ~ok), NilMap, Err("save", i))
       ELSE /\ Goto(i, CallNextPc("save", FALSE), NilMap, NoErr)
            /\ UNCHANGED <<saved, trace>>
  /\ UNCHANGED <<inputs, outputs, callErr, runID, loaded>>
  /\ UNCHANGED <<configVars, retryVars, treeVars, supplied, top, simpleRet, batchVars>>

\* outputs["runInfo"] = cm.RunID(), written into the map chain.Call returned.
WithRunInfo(i) ==
  IF includeRunInfo THEN Merge(outputs[i], [k \in {"runInfo"} |-> runID[i]])
  ELSE outputs[i]

\* if err := rm.OnChainEnd(outputs); err != nil { return nil, err }; return outputs, nil
OnChainEnd(i) ==
  /\ pc[i] = "end"
  /\ \E failing \in HookOutcomes(i) :
       LET ok == failing = 0 IN
       /\ Log(i, "end", ok, HooksRun(i, failing))
       /\ outputs' = [outputs EXCEPT ![i] = IF ok THEN WithRunInfo(i) ELSE @]
       /\ Goto(i, CallNextPc("end", ~ok),
               IF ok THEN WithRunInfo(i) ELSE NilMap,
               IF ok THEN NoErr ELSE Err("end", i))
  /\ UNCHANGED <<inputs, callErr, runID, saved, loaded>>
  /\ UNCHANGED <<configVars, retryVars, treeVars, supplied, top, simpleRet, batchVars>>

CallStep(i) ==
  \/ OnChainStart(i)
  \/ LoadMemoryVariables(i)
  \/ ChainCallBegin(i)
  \/ ChainCallSucceeds(i)
  \/ ChainCallFails(i)
  \/ OnChainError(i)
  \/ SaveContext(i)
  \/ OnChainEnd(i)

\* The host calls Call(ctx, chain, inputs).
HostCall ==
  /\ mode \in {"Call", "CallTree"}
  /\ top = "entry"
  /\ top' = "running"
  /\ EnterCall(1)
  /\ UNCHANGED <<inputs, outputs, callErr, ret, runID, trace, saved, loaded>>
  /\ UNCHANGED <<configVars, retryVars, treeVars, supplied, simpleRet, batchVars>>

\* Call has returned to the host.
HostReturn ==
  /\ mode \in {"Call", "CallTree"}
  /\ top = "running"
  /\ pc[1] = "returned"
  /\ top' = "done"
  /\ UNCHANGED <<callVars, configVars, retryVars, treeVars, supplied, simpleRet, batchVars>>

(***************************************************************************)
(* SimpleCall                                                              *)
(***************************************************************************)
\* SimpleCall as it would run with the output keys counted first.
OutputArityFirst(c) ==
  IF Len(c.outputKeys) # 1 THEN ErrMultipleOutputs
  ELSE IF Len(c.inputKeys) # 1 THEN ErrMultipleInputs
  ELSE NoErr

\* if len(chain.InputKeys()) != 1 { return "", ErrMultipleInputs }
\* if len(chain.OutputKeys()) != 1 { return "", ErrMultipleOutputs }
ArityError(c) ==
  IF Len(c.inputKeys) # 1 THEN ErrMultipleInputs
  ELSE IF Len(c.outputKeys) # 1 THEN ErrMultipleOutputs
  ELSE NoErr

\* The arity checks, then Call(ctx, chain, map[string]any{InputKeys()[0]: input}).
SimpleCallEnter ==
  /\ mode = "SimpleCall"
  /\ top = "entry"
  /\ IF ArityError(chain) # NoErr
       THEN /\ simpleRet' = [val |-> "", err |-> ArityError(chain)]
            /\ top' = "done"
            /\ UNCHANGED <<inputs, supplied, pc>>
       ELSE /\ inputs' = <<[k \in {chain.inputKeys[1]} |-> simpleInput]>>
            /\ supplied' = inputs'
            /\ EnterCall(1)
            /\ top' = "running"
            /\ UNCHANGED simpleRet
  /\ UNCHANGED <<outputs, callErr, ret, runID, trace, saved, loaded>>
  /\ UNCHANGED <<configVars, retryVars, treeVars, batchVars>>

\* SimpleCall as it would run with the value returned as it is, whatever its type.
SimpleResultUnasserted(c, r) ==
  IF r.err # NoErr THEN [val |-> "", err |-> r.err]
  ELSE LET k == c.outputKeys[1] IN
       IF k \in DOMAIN r.vals
         THEN [val |-> r.vals[k], err |-> NoErr]
         ELSE [val |-> "", err |-> ErrWrongOutputType]

\* outputValues[chain.OutputKeys()[0]].(string)
SimpleResult(c, r) ==
  IF r.err # NoErr THEN [val |-> "", err |-> r.err]
  ELSE LET k == c.outputKeys[1] IN
       IF k \in DOMAIN r.vals /\ IsText(r.vals[k])
         THEN [val |-> r.vals[k], err |-> NoErr]
         ELSE [val |-> "", err |-> ErrWrongOutputType]

\* Call has returned to SimpleCall.
SimpleCallReturn ==
  /\ mode = "SimpleCall"
  /\ top = "running"
  /\ pc[1] = "returned"
  /\ simpleRet' = SimpleResult(chain, ret[1])
  /\ top' = "done"
  /\ UNCHANGED <<callVars, configVars, retryVars, treeVars, supplied, batchVars>>

Next ==
  \/ HostCall
  \/ SimpleCallEnter
  \/ \E i \in Procs : CallStep(i)
  \/ HostReturn
  \/ SimpleCallReturn

Spec == Init /\ [][Next]_vars

(***************************************************************************)
(* BatchCall                                                               *)
(***************************************************************************)
\* The chains BatchCall is driven with.
BatchChains == {NewLLM(<<"question">>, "text", FALSE)}

\* The mappings BatchCall is handed.
BatchInputMaps == {[k \in {"question"} |-> "q1"], [k \in {"question"} |-> "q2"]}

\* The host calls BatchCall once, with up to MaxBatch separate input maps.
InitBatch ==
  /\ mode = "BatchCall"
  /\ chain \in BatchChains
  /\ callbacks \in 0..MaxObservers
  /\ includeRunInfo = FALSE
  /\ simpleInput = ""
  /\ docs = <<"d0">>
  /\ body = NoBody
  /\ \E n \in 0..MaxBatch :
       /\ inputs \in [1..n -> BatchInputMaps]
       /\ InitCommon(n)
  /\ maxRetries = DefaultMaxRetries
  /\ supplied = inputs

\* A group that would keep the latest error instead.
LatestError(recorded, e) == e

\* errgroup: the group keeps the first non-nil error its functions return.
FirstError(recorded, e) == IF recorded = NoErr THEN e ELSE recorded

\* A goroutine that would write the next free slot, as an append does.
NextFreeSlot(i) == Len(returnOrder) + 1

\* chainValues[i] = vals: the slot of the result slice goroutine i writes.
ResultSlot(i) == i

\* chainValues := make([]schema.ChainValues, len(inputs)), then the first errs.Go;
\* every later pass of the loop starts the next goroutine.
BatchGo ==
  /\ mode = "BatchCall"
  /\ top \in {"entry", "running"}
  /\ spawned < Len(inputs)
  /\ top' = "running"
  /\ chainValues' = IF top = "entry" THEN [i \in Procs |-> NilMap] ELSE chainValues
  /\ spawned' = spawned + 1
  /\ EnterCall(spawned + 1)
  /\ UNCHANGED <<inputs, outputs, callErr, ret, runID, trace, saved, loaded>>
  /\ UNCHANGED <<configVars, retryVars, treeVars, supplied, simpleRet>>
  /\ UNCHANGED <<groupErr, cancelled, gdone, returnOrder, batchRet>>

\* The function passed to errs.Go returns: an error goes to the group, which
\* cancels errctx on the first one; otherwise the values go into the slice.
GoReturn(i) ==
  /\ mode = "BatchCall"
  /\ pc[i] = "returned"
  /\ ~gdone[i]
  /\ gdone' = [gdone EXCEPT ![i] = TRUE]
  /\ returnOrder' = Append(returnOrder, i)
  /\ IF ret[i].err # NoErr
       THEN /\ groupErr' = FirstError(groupErr, ret[i].err)
            /\ cancelled' = TRUE
            /\ UNCHANGED chainValues
       ELSE /\ chainValues' = [chainValues EXCEPT ![ResultSlot(i)] = ret[i].vals]
            /\ UNCHANGED <<groupErr, cancelled>>
  /\ UNCHANGED <<callVars, configVars, retryVars, treeVars, supplied, top, simpleRet, spawned, batchRet>>

\* A Wait that would return as soon as the group holds an error.
WaitReturnsOnError == groupErr # NoErr \/ \A i \in Procs : gdone[i]

\* errs.Wait(): g.wg.Wait() blocks until every function passed to Go has returned.
WaitReturns == \A i \in Procs : gdone[i]

\* errs.Wait() returns once every goroutine has; BatchCall returns.
BatchWait ==
  /\ mode = "BatchCall"
  /\ top \in {"entry", "running"}
  /\ spawned = Len(inputs)
  /\ WaitReturns
  /\ top' = "done"
  /\ batchRet' = IF groupErr # NoErr
                   THEN [nil |-> TRUE, vals |-> <<>>, err |-> groupErr]
                   ELSE [nil |-> FALSE,
                         vals |-> IF top = "entry" THEN <<>> ELSE chainValues,
                         err |-> NoErr]
  /\ cancelled' = TRUE
  /\ UNCHANGED <<callVars, configVars, retryVars, treeVars, supplied, simpleRet>>
  /\ UNCHANGED <<spawned, groupErr, chainValues, gdone, returnOrder>>

NextBatch ==
  \/ BatchGo
  \/ \E i \in Procs : CallStep(i)
  \/ \E i \in Procs : GoReturn(i)
  \/ BatchWait

SpecBatch == InitBatch /\ [][NextBatch]_vars

(***************************************************************************)
(* StuffDocuments and RefineDocuments: Call on a documents chain, with the *)
(* calls the chain's own Call makes to its inner chains. Invocation 1 is   *)
(* the host's Call; invocation k + 1 is the nested Call for document k     *)
(* (StuffDocuments makes one nested Call, for all documents together).     *)
(***************************************************************************)
\* The options' defaults.
DocumentVariableName == "context"
InitialResponseName == "existingAnswer"
Separator == "\n\n"

\* The documents a caller may pass: d0, d1, ... by page content.
Doc(k) == "d" \o ToString(k - 1)
DocSeqs == {[k \in 1..n |-> Doc(k)] : n \in 0..MaxDocs}

\* The inner chains a documents chain is built from.
InnerLLMChains == {NewLLM(<<"context">>, "text", m) : m \in BOOLEAN}
InnerRefineLLMChains ==
  {NewLLM(<<"context", "existingAnswer">>, "text", FALSE),
   NewLLM(<<"context">>, "text", FALSE)}

TreeChains ==
  {NewStuffDocuments(c) : c \in InnerLLMChains}
    \cup {NewRefineDocuments(c, r, "inputDocuments", "text") :
            c \in InnerLLMChains, r \in InnerRefineLLMChains}

\* The mappings a caller may pass to a documents chain: the documents alone
\* or with another value, a string where the documents should be, no documents.
TreeInputMaps ==
  {[k \in {"inputDocuments"} |-> "#docs"],
   [k \in {"inputDocuments", "question"} |-> IF k = "question" THEN "q1" ELSE "#docs"],
   [k \in {"inputDocuments"} |-> "q1"],
   [k \in {"question"} |-> "q1"]}

\* The host calls Call once on a documents chain.
InitTree ==
  /\ mode = "CallTree"
  /\ chain \in TreeChains
  /\ callbacks \in 0..MaxObservers
  /\ includeRunInfo = FALSE
  /\ simpleInput = ""
  /\ docs \in DocSeqs
  /\ \E m \in TreeInputMaps :
       inputs = [i \in 1..(1 + MaxDocs) |-> IF i = 1 THEN m ELSE NilMap]
  /\ supplied = inputs
  /\ body = NoBody
  /\ maxRetries = DefaultMaxRetries
  /\ InitCommon(1 + MaxDocs)

\* A check that would answer an empty slice as it answers a wrong type.
InputErrorOneKind(c, m, d) ==
  IF c.inputKeys[1] \notin DOMAIN m THEN ErrNoInputValue
  ELSE IF m[c.inputKeys[1]] # "#docs" THEN ErrInputValuesWrongType
  ELSE IF c.type = "RefineDocuments" /\ d = <<>> THEN ErrInputValuesWrongType
  ELSE NoErr

\* input, ok := values[InputKey]; docs, ok := input.([]schema.Document);
\* RefineDocuments only: if len(docs) == 0 { ... }
InputError(c, m, d) ==
  IF c.inputKeys[1] \notin DOMAIN m THEN ErrNoInputValue
  ELSE IF m[c.inputKeys[1]] # "#docs" THEN ErrInputValuesWrongType
  ELSE IF c.type = "RefineDocuments" /\ d = <<>> THEN ErrNoDocuments
  ELSE NoErr

\* util.OmitByKeys
OmitByKeys(m, keys) == [k \in (DOMAIN m) \ keys |-> m[k]]

\* A join that would take the elements last to first.
JoinLastFirst(contents, sep) ==
  LET n == Len(contents)
      f[k \in 0..n] ==
        IF k = 0 THEN ""
        ELSE IF k = 1 THEN contents[n]
        ELSE f[k - 1] \o sep \o contents[n - k + 1]
  IN f[n]

\* strings.Join
RECURSIVE Join(_, _)
Join(contents, sep) ==
  IF contents = <<>> THEN ""
  ELSE IF Len(contents) = 1 THEN contents[1]
  ELSE contents[1] \o sep \o Join(Tail(contents), sep)

\* opts.DocumentPrompt.Format(docInfo) with the default "{{.pageContent}}".
FormatDocument(doc) == doc

\* inputs := util.CopyMap(rest); inputs[DocumentVariableName] = docText
ConstructInitialInputs(doc, rest) ==
  Merge(rest, [k \in {DocumentVariableName} |-> FormatDocument(doc)])

\* ... and inputs[InitialResponseName] = lastResponse
ConstructRefineInputs(doc, lastResponse, rest) ==
  Merge(rest, [k \in {DocumentVariableName, InitialResponseName} |->
                 IF k = DocumentVariableName THEN FormatDocument(doc) ELSE lastResponse])

\* The documents chain's Call returns an error to Call.
CompositeFails(e) ==
  /\ callErr' = [callErr EXCEPT ![1] = e]
  /\ Log(1, "callReturn", FALSE, 0)
  /\ Goto(1, CallNextPc("inCall", TRUE), NilMap, e)
  /\ body' = [body EXCEPT !.stage = "done"]
  /\ UNCHANGED <<inputs, supplied, outputs, simpleArg>>

\* The documents chain's Call returns outputs to Call.
CompositeSucceeds(vals, res) ==
  /\ outputs' = [outputs EXCEPT ![1] = vals]
  /\ Log(1, "callReturn", TRUE, 0)
  /\ Goto(1, CallNextPc("inCall", FALSE), NilMap, NoErr)
  /\ body' = [body EXCEPT !.stage = "done", !.res = res]
  /\ UNCHANGED <<inputs, supplied, callErr, simpleArg>>

\* golc.Call(ctx, inner, m) is entered from inside the documents chain's Call.
NestedCall(j, m, arg) ==
  /\ inputs' = [inputs EXCEPT ![j] = m]
  /\ supplied' = [supplied EXCEPT ![j] = m]
  /\ simpleArg' = [simpleArg EXCEPT ![j] = arg]
  /\ EnterCall(j)
  /\ body' = [body EXCEPT !.stage = "waiting"]
  /\ UNCHANGED <<outputs, callErr, ret, trace>>

\* The checks both documents chains make on their inputs before anything else.
CompositeValidate ==
  /\ Composite(1)
  /\ chain.type \in {"StuffDocuments", "RefineDocuments"}
  /\ pc[1] = "inCall"
  /\ body.stage = "none"
  /\ LET e == InputError(chain, inputs[1], docs) IN
     IF e # NoErr THEN CompositeFails(e)
     ELSE /\ body' = [stage |-> "ready", doc |-> 1, res |-> ""]
          /\ UNCHANGED <<inputs, supplied, pc, outputs, callErr, ret, trace, simpleArg>>
  /\ UNCHANGED <<configVars, retryVars, top, simpleRet, batchVars, runID, saved, loaded, parentRunID>>

\* StuffDocuments: inputValues := util.CopyMap(values);
\* inputValues[DocumentVariableName] = strings.Join(contents, Separator);
\* golc.Call(ctx, c.llmChain, inputValues)
StuffCallInner ==
  /\ Composite(1)
  /\ chain.type = "StuffDocuments"
  /\ body.stage = "ready"
  /\ NestedCall(2, Merge(inputs[1], [k \in {DocumentVariableName} |-> Join(docs, Separator)]),
                NilMap)
  /\ UNCHANGED <<configVars, retryVars, top, simpleRet, batchVars, runID, saved, loaded, parentRunID>>

\* StuffDocuments returns what the nested Call returned.
StuffReturn ==
  /\ Composite(1)
  /\ chain.type = "StuffDocuments"
  /\ body.stage = "waiting"
  /\ pc[2] = "returned"
  /\ IF ret[2].err # NoErr THEN CompositeFails(ret[2].err)
     ELSE CompositeSucceeds(ret[2].vals, "")
  /\ UNCHANGED <<configVars, retryVars, top, simpleRet, batchVars, runID, saved, loaded, parentRunID>>

\* RefineDocuments: golc.SimpleCall(ctx, c.llmChain, initialInputs) for the first
\* document, golc.SimpleCall(ctx, c.refineLLMChain, refineInputs) for each later
\* one; SimpleCall checks the inner chain's arity and calls Call with the
\* whole mapping as the value of the inner chain's one input key.
RefineSimpleCall ==
  /\ Composite(1)
  /\ chain.type = "RefineDocuments"
  /\ body.stage = "ready"
  /\ LET k == body.doc
         j == k + 1
         rest == OmitByKeys(inputs[1], {chain.inputKeys[1]})
         arg == IF k = 1 THEN ConstructInitialInputs(docs[k], rest)
                ELSE ConstructRefineInputs(docs[k], body.res, rest)
     IN IF ArityError(ChainOf(j)) # NoErr THEN CompositeFails(ArityError(ChainOf(j)))
        ELSE NestedCall(j, [key \in {ChainOf(j).inputKeys[1]} |-> "#map"], arg)
  /\ UNCHANGED <<configVars, retryVars, top, simpleRet, batchVars, runID, saved, loaded, parentRunID>>

\* The nested SimpleCall returns: its error ends RefineDocuments' Call, its
\* text is the running answer for the next document, or after the last
\* document the answer returned, trimmed, under OutputKey.
RefineSimpleReturn ==
  /\ Composite(1)
  /\ chain.type = "RefineDocuments"
  /\ body.stage = "waiting"
  /\ pc[body.doc + 1] = "returned"
  /\ LET r == SimpleResult(ChainOf(body.doc + 1), ret[body.doc + 1]) IN
     IF r.err # NoErr THEN CompositeFails(r.err)
     ELSE IF body.doc < Len(docs)
       THEN /\ body' = [stage |-> "ready", doc |-> body.doc + 1, res |-> r.val]
            /\ UNCHANGED <<inputs, supplied, pc, outputs, callErr, ret, trace, simpleArg>>
     ELSE CompositeSucceeds([k \in {chain.resultKey} |-> TrimSpace(r.val)], r.val)
  /\ UNCHANGED <<configVars, retryVars, top, simpleRet, batchVars, runID, saved, loaded, parentRunID>>

NextTree ==
  \/ HostCall
  \/ \E i \in Procs : CallStep(i)
  \/ CompositeValidate
  \/ StuffCallInner
  \/ StuffReturn
  \/ RefineSimpleCall
  \/ RefineSimpleReturn
  \/ HostReturn

SpecTree == InitTree /\ [][NextTree]_vars

(***************************************************************************)
(* ConversationalRetrieval: Call on the chain, with the calls its own Call *)
(* makes. Invocation 1 is the host's Call, invocation 2 the nested Call on *)
(* condenseQuestionChain, invocation 3 the nested Call on retrievalQAChain.*)
(* body.doc is the stage at work, body.res the generated question.         *)
(***************************************************************************)
ConversationalChains ==
  {NewConversationalRetrieval(rsd, rgq) : rsd \in BOOLEAN, rgq \in BOOLEAN}

\* The mappings Call may be entered with: a question with no history key, with
\* an empty history, with earlier turns, and no string under the input key.
ConversationalInputMaps ==
  {[k \in {"question"} |-> "q1"],
   [k \in {"question", "history"} |-> IF k = "question" THEN "q1" ELSE ""],
   [k \in {"question", "history"} |-> IF k = "question" THEN "q1" ELSE "h"],
   [k \in {"question", "history"} |-> IF k = "question" THEN "#docs" ELSE ""]}

\* The host calls Call once on a ConversationalRetrieval chain.
InitRetrieval ==
  /\ mode = "CallTree"
  /\ chain \in ConversationalChains
  /\ callbacks \in 0..MaxObservers
  /\ includeRunInfo = FALSE
  /\ simpleInput = ""
  /\ docs = <<"d0">>
  /\ \E m \in ConversationalInputMaps :
       inputs = [i \in 1..3 |-> IF i = 1 THEN m ELSE NilMap]
  /\ supplied = inputs
  /\ body = NoBody
  /\ maxRetries = DefaultMaxRetries
  /\ InitCommon(3)

\* schema.ChainValues.GetString
GetString(m, key) ==
  IF key \in DOMAIN m /\ IsText(m[key]) THEN [val |-> m[key], err |-> NoErr]
  ELSE [val |-> "", err |-> ErrNotAString]

\* A test that would look for the key only, whatever it holds.
HistoryPresent(m) == "history" \in DOMAIN m

\* inputs["history"] == ""
HistoryIsEmpty(m) == "history" \in DOMAIN m /\ m["history"] = ""

\* generateQuestion: if inputs["history"] == "" { return inputs.GetString(InputKey) };
\* else golc.Call(ctx, c.condenseQuestionChain, inputs, ...)
GenerateQuestion ==
  /\ Composite(1)
  /\ chain.type = "ConversationalRetrieval"
  /\ pc[1] = "inCall"
  /\ body.stage = "none"
  /\ IF HistoryIsEmpty(inputs[1])
       THEN LET q == GetString(inputs[1], chain.inputKeys[1]) IN
            IF q.err # NoErr THEN CompositeFails(q.err)
            ELSE /\ body' = [stage |-> "ready", doc |-> 2, res |-> q.val]
                 /\ UNCHANGED <<inputs, supplied, pc, outputs, callErr, ret, trace, simpleArg>>
       ELSE /\ inputs' = [inputs EXCEPT ![2] = inputs[1]]
            /\ supplied' = [supplied EXCEPT ![2] = inputs[1]]
            /\ EnterCall(2)
            /\ body' = [stage |-> "waiting", doc |-> 1, res |-> ""]
            /\ UNCHANGED <<outputs, callErr, ret, trace, simpleArg>>
  /\ UNCHANGED <<configVars, retryVars, top, simpleRet, batchVars, runID, saved, loaded, parentRunID>>

\* generateQuestion, after the nested Call: if err != nil { return "", err };
\* return output.GetString(c.condenseQuestionChain.OutputKeys()[0])
CondenseReturn ==
  /\ Composite(1)
  /\ chain.type = "ConversationalRetrieval"
  /\ body.stage = "waiting"
  /\ body.doc = 1
  /\ pc[2] = "returned"
  /\ IF ret[2].err # NoErr THEN CompositeFails(ret[2].err)
     ELSE LET q == GetString(ret[2].vals, ChainOf(2).outputKeys[1]) IN
          IF q.err # NoErr THEN CompositeFails(q.err)
          ELSE /\ body' = [stage |-> "ready", doc |-> 2, res |-> q.val]
               /\ UNCHANGED <<inputs, supplied, pc, outputs, callErr, ret, trace, simpleArg>>
  /\ UNCHANGED <<configVars, retryVars, top, simpleRet, batchVars, runID, saved, loaded, parentRunID>>

\* A Call that would run the retrieval chain on the caller's mapping.
RetrievalInputsWhole(c, m, generatedQuestion) == m

\* schema.ChainValues{c.retrievalQAChain.InputKeys()[0]: generatedQuestion}
RetrievalInputs(c, m, generatedQuestion) ==
  [k \in {c.retrievalQAChain.inputKeys[1]} |-> generatedQuestion]

\* golc.Call(ctx, c.retrievalQAChain, {InputKeys()[0]: generatedQuestion}, ...)
RetrievalQACall ==
  /\ Composite(1)
  /\ chain.type = "ConversationalRetrieval"
  /\ body.stage = "ready"
  /\ body.doc = 2
  /\ NestedCall(3, RetrievalInputs(chain, inputs[1], body.res), NilMap)
  /\ UNCHANGED <<configVars, retryVars, top, simpleRet, batchVars, runID, saved, loaded, parentRunID>>

\* An assembly that would hand the source documents back whatever the options.
ReturnsUngated(c, answer, retrievalOutput, generatedQuestion) ==
  [k \in {c.resultKey, "sourceDocuments"}
           \cup (IF c.returnGeneratedQuestion THEN {"generatedQuestion"} ELSE {}) |->
     IF k = "sourceDocuments"
       THEN (IF k \in DOMAIN retrievalOutput THEN retrievalOutput[k] ELSE "<nil>")
     ELSE IF k = "generatedQuestion" THEN generatedQuestion
     ELSE answer]

\* returns := schema.ChainValues{OutputKey: answer};
\* if ReturnSourceDocuments { returns["sourceDocuments"] = retrievalOutput["sourceDocuments"] };
\* if ReturnGeneratedQuestion { returns["generatedQuestion"] = generatedQuestion }
Returns(c, answer, retrievalOutput, generatedQuestion) ==
  [k \in {c.resultKey}
           \cup (IF c.returnSourceDocuments THEN {"sourceDocuments"} ELSE {})
           \cup (IF c.returnGeneratedQuestion THEN {"generatedQuestion"} ELSE {}) |->
     IF k = "sourceDocuments"
       THEN (IF k \in DOMAIN retrievalOutput THEN retrievalOutput[k] ELSE "<nil>")
     ELSE IF k = "generatedQuestion" THEN generatedQuestion
     ELSE answer]

\* After the nested Call: if err != nil { return nil, err };
\* answer, err := retrievalOutput.GetString(c.retrievalQAChain.OutputKeys()[0]);
\* if err != nil { return nil, err }; return returns, nil
RetrievalQAReturn ==
  /\ Composite(1)
  /\ chain.type = "ConversationalRetrieval"
  /\ body.stage = "waiting"
  /\ body.doc = 2
  /\ pc[3] = "returned"
  /\ IF ret[3].err # NoErr THEN CompositeFails(ret[3].err)
     ELSE LET answer == GetString(ret[3].vals, ChainOf(3).outputKeys[1]) IN
          IF answer.err # NoErr THEN CompositeFails(answer.err)
          ELSE CompositeSucceeds(Returns(chain, answer.val, ret[3].vals, body.res), body.res)
  /\ UNCHANGED <<configVars, retryVars, top, simpleRet, batchVars, runID, saved, loaded, parentRunID>>

NextRetrieval ==
  \/ HostCall
  \/ \E i \in Procs : CallStep(i)
  \/ GenerateQuestion
  \/ CondenseReturn
  \/ RetrievalQACall
  \/ RetrievalQAReturn
  \/ HostReturn

SpecRetrieval == InitRetrieval /\ [][NextRetrieval]_vars

(***************************************************************************)
(* Cohere.Generate: the retry loop around the backend's Generate.          *)
(***************************************************************************)
\* What one call of client.Generate may answer: a response, an API error
\* with status 429, 500 or 400, or an error that is no API error.
Outcomes == {"ok", "429", "500", "400", "net"}

\* A predicate that would have every error retried.
RetryIfAnyError(outcome) == outcome # "ok"

\* retry.RetryIf: errors.As(err, &cohere.APIError{}) and StatusCode 429 or 500
RetryIf(outcome) == outcome \in {"429", "500"}

\* retry.Do, after the n-th call of the function: nil ends the loop, so does
\* an error RetryIf rejects, so does the last of the attempts; the loop is
\* given no context (retry.Context is not among the options) and Generate's
\* ctx is handed neither to generateWithRetry nor to client.Generate.
RetryNext(outcome, n, max) ==
  IF outcome = "ok" THEN "done"
  ELSE IF ~RetryIf(outcome) THEN "done"
  ELSE IF n >= max THEN "done"
  ELSE "attempt"

\* The host calls Generate once; the context it passes may be cancelled by
\* its owner at any time.
InitRetry ==
  /\ mode = "Generate"
  /\ chain = NewLLM(<<"question">>, "text", FALSE)
  /\ callbacks = 0
  /\ includeRunInfo = FALSE
  /\ simpleInput = ""
  /\ docs = <<"d0">>
  /\ inputs = <<NilMap>>
  /\ supplied = inputs
  /\ body = NoBody
  /\ maxRetries \in 1..MaxAttempts
  /\ InitCommon(1)

\* Generate is entered and calls generateWithRetry.
GenerateEnter ==
  /\ mode = "Generate"
  /\ genPc = "idle"
  /\ genPc' = "attempt"
  /\ UNCHANGED <<maxRetries, attempts, genRet>>
  /\ UNCHANGED <<callVars, configVars, treeVars, supplied, top, simpleRet, batchVars>>

\* One pass of retry.Do: r, cErr := l.client.Generate(opts)
ClientGenerate ==
  /\ mode = "Generate"
  /\ genPc = "attempt"
  /\ \E outcome \in Outcomes :
       /\ attempts' = Append(attempts, outcome)
       /\ genPc' = RetryNext(outcome, Len(attempts) + 1, maxRetries)
  /\ UNCHANGED <<maxRetries, genRet>>
  /\ UNCHANGED <<callVars, configVars, treeVars, supplied, top, simpleRet, batchVars>>

\* return res, err; Generate: if err != nil { return nil, err }; return &ModelResult
GenerateReturn ==
  /\ mode = "Generate"
  /\ genPc = "done"
  /\ genRet' = IF attempts[Len(attempts)] = "ok" THEN [res |-> "text", err |-> <<>>]
               ELSE [res |-> "", err |-> attempts]
  /\ genPc' = "returned"
  /\ UNCHANGED <<maxRetries, attempts>>
  /\ UNCHANGED <<callVars, configVars, treeVars, supplied, top, simpleRet, batchVars>>

\* The context handed to Generate is cancelled (by BatchCall's group after a
\* sibling's failure, or by the host).
ContextCancelled ==
  /\ mode = "Generate"
  /\ ~cancelled
  /\ genPc # "returned"
  /\ cancelled' = TRUE
  /\ UNCHANGED <<spawned, groupErr, chainValues, gdone, returnOrder, batchRet>>
  /\ UNCHANGED <<callVars, configVars, retryVars, treeVars, supplied, top, simpleRet>>

NextRetry ==
  \/ GenerateEnter
  \/ ClientGenerate
  \/ GenerateReturn
  \/ ContextCancelled

SpecRetry == InitRetry /\ [][NextRetry]_vars

\* Generate is sequential code: once entered, each of its steps is taken.
SpecRetryFair ==
  /\ SpecRetry
  /\ WF_vars(GenerateEnter)
  /\ WF_vars(ClientGenerate)
  /\ WF_vars(GenerateReturn)

(***************************************************************************)
(* Properties                                                              *)
(***************************************************************************)
Count(tr, ev) == Cardinality({k \in DOMAIN tr : tr[k].ev = ev})
Happened(i, ev, ok) == \E k \in DOMAIN trace[i] : trace[i][k].ev = ev /\ trace[i][k].ok = ok
\* The k-th entry of a trace comes after a successful ev.
AfterSuccessful(tr, ev, k) == \E j \in 1..(k - 1) : tr[j].ev = ev /\ tr[j].ok
Returned(i) == pc[i] = "returned"
Failed(i) == Returned(i) /\ ret[i].err # NoErr
Succeeded(i) == Returned(i) /\ ret[i].err = NoErr

\* C1 (as claimed): whenever the start notification succeeded and Call returns an
\* error, exactly one fail notification was emitted for that run.
C1_OneFailPerFailure ==
  \A i \in Procs :
    (Failed(i) /\ Happened(i, "start", TRUE)) => Count(trace[i], "fail") = 1

\* C2: end and fail come only after the run's successful start, a run gets at
\* most one of them and at most once, and a Call that returned successfully
\* emitted exactly one end and no fail.
C2_NotificationsOrderedExclusive ==
  \A i \in Procs :
    /\ \A k \in DOMAIN trace[i] :
         trace[i][k].ev \in {"end", "fail"} =>
           AfterSuccessful(trace[i], "start", k)
    /\ Count(trace[i], "end") + Count(trace[i], "fail") <= 1
    /\ Succeeded(i) => (Count(trace[i], "end") = 1 /\ Count(trace[i], "fail") = 0)

C2_Witness ==
  \E i \in Procs :
    /\ Succeeded(i)
    /\ callbacks > 0
    /\ Happened(i, "end", TRUE)

\* C3: when the start notification fails, Call returns that error, and the run
\* saw no Memory load or save, no chain call and no end or fail notification.
C3_StartFailClosed ==
  \A i \in Procs :
    Happened(i, "start", FALSE) =>
      /\ Len(trace[i]) = 1
      /\ Returned(i)
      /\ ret[i] = [vals |-> NilMap, err |-> Err("start", i)]
      /\ saved[i] = NoSave
      /\ inputs[i] = supplied[i]

C3_Witness ==
  \E i \in Procs :
    /\ chain.memory
    /\ Returned(i)
    /\ Happened(i, "start", FALSE)

\* C4: with a Memory, the load comes before the chain's call, the save happens
\* at most once and only after the chain's call returned successfully, and
\* never when the chain's call failed.
C4_LoadBeforeCallSaveOnSuccess ==
  chain.memory =>
    \A i \in Procs :
      /\ \A k \in DOMAIN trace[i] :
           /\ trace[i][k].ev = "call" =>
                \E j \in 1..(k - 1) : trace[i][j].ev = "load"
           /\ trace[i][k].ev = "save" =>
                AfterSuccessful(trace[i], "callReturn", k)
      /\ Count(trace[i], "save") <= 1
      /\ Happened(i, "callReturn", FALSE) =>
           (Count(trace[i], "save") = 0 /\ saved[i] = NoSave)

C4_Witness ==
  /\ chain.memory
  /\ \E i \in Procs :
       /\ Returned(i)
       /\ Count(trace[i], "load") = 1
       /\ Happened(i, "save", TRUE)

\* C5 (as claimed): the inputs SaveContext receives are the inputs as the
\* caller supplied them, with nothing the Memory load added or overwrote.
C5_SaveGetsOriginalInputs ==
  \A i \in Procs : saved[i] # NoSave => saved[i].inputs = supplied[i]

\* C6 (as claimed): when the chain's call fails, Call returns that very error,
\* however the observers' on-error hooks behave.
C6_ChainErrorUnchanged ==
  \A i \in Procs :
    (Returned(i) /\ Happened(i, "callReturn", FALSE)) => ret[i].err = callErr[i]

\* C7 (as claimed): when loading the memory variables fails, the chain is not
\* run and Call returns an error.
C7_LoadErrorSurfaced ==
  \A i \in Procs :
    Happened(i, "load", FALSE) =>
      /\ Count(trace[i], "call") = 0
      /\ Returned(i) => ret[i].err # NoErr

\* What a caller may receive: every declared output key and no error, or an
\* error and no mapping.
CompleteOrError(r) ==
  \/ /\ r.err = NoErr
     /\ r.vals # NilMap
     /\ \A k \in Range(chain.outputKeys) : k \in DOMAIN r.vals
  \/ /\ r.err # NoErr
     /\ r.vals = NilMap

\* C8 (as claimed): Call returns a mapping holding every declared output key,
\* or an error and no mapping; SimpleCall returns a value or an error, and
\* BatchCall a full slice of such mappings or an error and no slice.
C8_CompleteOutputOrError ==
  /\ \A i \in Procs : Returned(i) => CompleteOrError(ret[i])
  /\ (mode = "SimpleCall" /\ top = "done") =>
       (simpleRet.err = NoErr \/ simpleRet.val = "")
  /\ (mode = "BatchCall" /\ top = "done") =>
       IF batchRet.err = NoErr
         THEN /\ ~batchRet.nil
              /\ \A i \in DOMAIN batchRet.vals :
                   CompleteOrError([vals |-> batchRet.vals[i], err |-> NoErr])
         ELSE batchRet.nil

\* C9: when no invocation fails, BatchCall returns one output per input, the
\* i-th being what Call returned for the i-th input, in whatever order the
\* goroutines ran and returned.
C9_BatchResultsAligned ==
  (top = "done" /\ \A i \in Procs : ret[i].err = NoErr) =>
    /\ batchRet.err = NoErr
    /\ ~batchRet.nil
    /\ Len(batchRet.vals) = Len(inputs)
    /\ \A i \in Procs :
         /\ batchRet.vals[i] = ret[i].vals
         /\ batchRet.vals[i] = outputs[i]
         /\ batchRet.vals[i] # NilMap

C9_Witness ==
  /\ top = "done"
  /\ Len(inputs) >= 2
  /\ \A i \in Procs : ret[i].err = NoErr
  /\ returnOrder[1] # 1
  /\ batchRet.vals[1] # batchRet.vals[2]

\* The goroutines that returned an error, in the order they returned.
FailedInOrder == SelectSeq(returnOrder, LAMBDA i : ret[i].err # NoErr)

\* C10: when an invocation fails, BatchCall returns the error of the
\* invocation that failed first, which is no sibling's cancellation error,
\* and no result slice; the chain is called at most once per input.
C10_BatchFirstError ==
  /\ \A i \in Procs : Count(trace[i], "call") <= 1
  /\ (top = "done" /\ \E i \in Procs : ret[i].err # NoErr) =>
       /\ batchRet.err = ret[Head(FailedInOrder)].err
       /\ batchRet.err.kind # "cancelled"
       /\ batchRet.nil
       /\ batchRet.vals = <<>>

C10_Witness ==
  /\ top = "done"
  /\ Len(FailedInOrder) >= 2
  /\ ret[FailedInOrder[2]].err.kind = "cancelled"
  /\ batchRet.err = ret[FailedInOrder[1]].err

\* C13 (as claimed): Call never writes to the mapping its caller supplied, so
\* the caller's map holds after the call exactly what it held before.
C13_CallerInputsUntouched ==
  \A i \in Procs : Returned(i) => inputs[i] = supplied[i]

\* C17: SimpleCall on a chain that does not declare exactly one input key
\* fails with ErrMultipleInputs, and on one with one input key but not exactly
\* one output key with ErrMultipleOutputs; in both cases no notification is
\* emitted, the Memory is not touched and the chain is not called.
C17_ArityChecked ==
  (mode = "SimpleCall" /\ top = "done") =>
    /\ Len(chain.inputKeys) # 1 =>
         simpleRet = [val |-> "", err |-> ErrMultipleInputs]
    /\ (Len(chain.inputKeys) = 1 /\ Len(chain.outputKeys) # 1) =>
         simpleRet = [val |-> "", err |-> ErrMultipleOutputs]
    /\ (Len(chain.inputKeys) # 1 \/ Len(chain.outputKeys) # 1) =>
         /\ pc[1] = "idle"
         /\ trace[1] = <<>>
         /\ runID[1] = ""
         /\ saved[1] = NoSave
         /\ inputs = supplied

C17_Witness ==
  /\ mode = "SimpleCall"
  /\ top = "done"
  /\ Len(chain.inputKeys) # 1
  /\ Len(chain.outputKeys) # 1
  /\ simpleRet.err = ErrMultipleInputs

\* C18: on a chain with one input and one output key, SimpleCall makes one
\* Call with the given value under the chain's input key; it returns Call's
\* error as it is, else the value under the output key when that is a string,
\* else ErrWrongOutputType.
C18_SimpleCallWrapsCall ==
  (mode = "SimpleCall" /\ Len(chain.inputKeys) = 1 /\ Len(chain.outputKeys) = 1) =>
    /\ top # "entry" =>
         /\ supplied[1] = [k \in {chain.inputKeys[1]} |-> simpleInput]
         /\ pc[1] # "idle"
         /\ Count(trace[1], "start") <= 1
         /\ Count(trace[1], "call") <= 1
    /\ top = "done" =>
         /\ Returned(1)
         /\ LET k == chain.outputKeys[1] IN
            IF ret[1].err # NoErr
              THEN simpleRet = [val |-> "", err |-> ret[1].err]
            ELSE IF k \in DOMAIN ret[1].vals /\ ret[1].vals[k] \in TextVals
              THEN simpleRet = [val |-> ret[1].vals[k], err |-> NoErr]
            ELSE simpleRet = [val |-> "", err |-> ErrWrongOutputType]

C18_Witness ==
  /\ mode = "SimpleCall"
  /\ top = "done"
  /\ ret[1].err = NoErr
  /\ chain.outputKeys[1] \in DOMAIN ret[1].vals
  /\ ret[1].vals[chain.outputKeys[1]] = simpleInput
  /\ simpleRet.err = ErrWrongOutputType

\* The Memory and chain operations of run i, in order, with their outcomes.
Ops(i) ==
  LET ops == SelectSeq(trace[i], LAMBDA e : e.ev \notin {"start", "end", "fail"})
  IN [k \in DOMAIN ops |-> <<ops[k].ev, ops[k].ok>>]

NoHookFailed(i) ==
  \A k \in DOMAIN trace[i] :
    trace[i][k].ev \in {"start", "end", "fail"} => trace[i][k].ok

\* What a Call tracked by no observer does and returns, given how its
\* collaborators answer: the operations on the Memory and the chain ...
UntrackedOps(loadOk, callOk, saveOk) ==
  (IF chain.memory THEN << <<"load", loadOk>> >> ELSE <<>>)
    \o << <<"call", TRUE>>, <<"callReturn", callOk>> >>
    \o (IF chain.memory /\ callOk THEN << <<"save", saveOk>> >> ELSE <<>>)

\* ... and the outputs or the error.
UntrackedReturn(i, callOk, saveOk) ==
  IF ~callOk THEN [vals |-> NilMap, err |-> callErr[i]]
  ELSE IF chain.memory /\ ~saveOk THEN [vals |-> NilMap, err |-> Err("save", i)]
  ELSE [vals |-> outputs[i], err |-> NoErr]

\* C16: with any number of observers whose hooks do not fail, Call performs
\* the Memory load, chain call and Memory save operations, and returns the
\* outputs or the error, that a Call with no observer does when the chain and
\* the Memory answer the same way.
C16_ObserversDoNotInterfere ==
  \A i \in Procs :
    (Returned(i) /\ NoHookFailed(i)) =>
      \E loadOk, callOk, saveOk \in BOOLEAN :
        /\ Ops(i) = UntrackedOps(loadOk, callOk, saveOk)
        /\ ret[i] = UntrackedReturn(i, callOk, saveOk)

C16_Witness ==
  \E i \in Procs :
    /\ callbacks > 0
    /\ chain.memory
    /\ Returned(i)
    /\ NoHookFailed(i)
    /\ trace[i][1].hooks = callbacks
    /\ Happened(i, "save", TRUE)
    /\ Happened(i, "end", TRUE)

\* C11 (as claimed): once the group has seen an invocation fail, no invocation
\* that has not yet entered its chain's call enters it.
C11_NoCallAfterFirstFailure ==
  [][\A i \in Procs :
       (groupErr # NoErr /\ Count(trace[i], "call") = 0) =>
         Count(trace'[i], "call") = 0]_vars

\* C12: when BatchCall returns, every invocation it started has returned and
\* its goroutine has ended, and the slice BatchCall handed back is the result
\* slice as it stands: nothing writes to it after the return.
C12_NoInvocationOutlivesBatchCall ==
  (mode = "BatchCall" /\ top = "done") =>
    /\ spawned = Len(inputs)
    /\ \A i \in Procs : pc[i] = "returned" /\ gdone[i]
    /\ Len(returnOrder) = Len(inputs)
    /\ batchRet.err = NoErr => batchRet.vals = chainValues

C12_Witness ==
  /\ mode = "BatchCall"
  /\ top = "done"
  /\ Len(returnOrder) >= 2
  /\ ret[returnOrder[1]].err # NoErr
  /\ ret[returnOrder[2]].err = NoErr
  /\ Happened(returnOrder[2], "end", TRUE)

\* C14 (as claimed): a Call made from inside a documents chain's Call never
\* loads from or saves to a Memory, even when the inner chain has one.
C14_NestedCallsLeaveMemoryAlone ==
  \A i \in Procs :
    Nested(i) =>
      /\ Count(trace[i], "load") = 0
      /\ Count(trace[i], "save") = 0
      /\ saved[i] = NoSave

\* C15 (as claimed): the run of every Call made from inside a documents
\* chain's Call has the enclosing run as its parent, and its start is
\* notified to the observers of the enclosing run.
C15_NestedRunHasParent ==
  \A i \in Procs :
    (Nested(i) /\ runID[i] # "") =>
      /\ parentRunID[i] = runID[1]
      /\ trace[i][1].ev = "start"
      /\ trace[i][1].hooks = callbacks

\* The nested Call made for document k has gone through its chain's call once
\* and returned without error.
RefinedWith(k) ==
  /\ Count(trace[k + 1], "call") = 1
  /\ Succeeded(k + 1)

\* C19 (as claimed): when RefineDocuments' Call over n >= 1 documents returns
\* without any of its inner chains' calls having failed, the initial chain was
\* called once, for document 0, and the refine chain once per later document,
\* each call receiving its document's text under DocumentVariableName and, for
\* the refine chain, the previous call's answer under InitialResponseName; the
\* last answer, trimmed, is what RefineDocuments returns.
C19_RefineOncePerDocument ==
  (/\ mode = "CallTree"
   /\ chain.type = "RefineDocuments"
   /\ InputError(chain, supplied[1], docs) = NoErr
   /\ body.stage = "done"
   /\ \A j \in Procs : Nested(j) => ~Happened(j, "callReturn", FALSE)
   /\ \A j \in Procs : Nested(j) => ~Happened(j, "save", FALSE)) =>
    /\ \A k \in 1..Len(docs) :
         /\ RefinedWith(k)
         /\ DocumentVariableName \in DOMAIN supplied[k + 1]
         /\ supplied[k + 1][DocumentVariableName] = FormatDocument(docs[k])
         /\ k > 1 =>
              /\ InitialResponseName \in DOMAIN supplied[k + 1]
              /\ supplied[k + 1][InitialResponseName] = outputs[k]["text"]
    /\ \A j \in Procs : j > Len(docs) + 1 => trace[j] = <<>>
    /\ callErr[1] = NoErr
    /\ outputs[1] = [k \in {chain.resultKey} |-> TrimSpace(outputs[Len(docs) + 1]["text"])]

\* C20: RefineDocuments' Call answers an empty document slice with the
\* no-elements error and a value that is no document slice with the
\* wrong-type error; the two differ, and in both cases no inner chain is run.
C20_RefineRejectsBadInput ==
  (mode = "CallTree" /\ chain.type = "RefineDocuments" /\ body.stage # "none") =>
    LET key == chain.inputKeys[1] IN
    /\ ErrNoDocuments.kind # ErrInputValuesWrongType.kind
    /\ (key \in DOMAIN supplied[1] /\ supplied[1][key] = "#docs" /\ docs = <<>>) =>
         /\ callErr[1] = ErrNoDocuments
         /\ \A j \in Procs : Nested(j) => (pc[j] = "idle" /\ trace[j] = <<>>)
    /\ (key \in DOMAIN supplied[1] /\ supplied[1][key] # "#docs") =>
         /\ callErr[1] = ErrInputValuesWrongType
         /\ \A j \in Procs : Nested(j) => (pc[j] = "idle" /\ trace[j] = <<>>)

C20_Witness ==
  /\ mode = "CallTree"
  /\ chain.type = "RefineDocuments"
  /\ docs = <<>>
  /\ Returned(1)
  /\ callErr[1] = ErrNoDocuments
  /\ Happened(1, "fail", TRUE)

\* C25: on a chain with a Memory, the mapping the chain's call receives holds,
\* for every key the Memory load returned, the value the Memory returned, and
\* for every other key of the caller, the caller's value; it holds no other key.
C25_MemoryKeysTakePrecedence ==
  \A i \in Procs :
    (ChainOf(i).memory /\ Count(trace[i], "call") = 1) =>
      /\ loaded[i] # NilMap
      /\ DOMAIN inputs[i] = (DOMAIN supplied[i]) \cup (DOMAIN loaded[i])
      /\ \A k \in DOMAIN loaded[i] : inputs[i][k] = loaded[i][k]
      /\ \A k \in (DOMAIN supplied[i]) \ (DOMAIN loaded[i]) : inputs[i][k] = supplied[i][k]

C25_Witness ==
  \E i \in Procs :
    /\ ChainOf(i).memory
    /\ Happened(i, "callReturn", TRUE)
    /\ \E k \in (DOMAIN supplied[i]) \cap (DOMAIN loaded[i]) :
         /\ supplied[i][k] # loaded[i][k]
         /\ inputs[i][k] = loaded[i][k]
    /\ \E k \in (DOMAIN supplied[i]) \ (DOMAIN loaded[i]) : inputs[i][k] = supplied[i][k]

\* C29 (as claimed): whenever Call returns an error, the invocation has
\* performed no Memory save.
C29_NoSaveOnError ==
  \A i \in Procs : Failed(i) => ~Happened(i, "save", TRUE)

\* C29 (amended): a Call whose start notification or whose chain's call failed
\* has not called SaveContext at all; a Call that returns an error after a
\* successful save is one whose end notification failed, the save preceding it.
C29_SaveOnlyAfterChainSuccess ==
  \A i \in Procs :
    /\ (Happened(i, "start", FALSE) \/ Happened(i, "callReturn", FALSE)) =>
         (Count(trace[i], "save") = 0 /\ saved[i] = NoSave)
    /\ (Failed(i) /\ Happened(i, "save", TRUE)) =>
         /\ Happened(i, "end", FALSE)
         /\ \E k \in DOMAIN trace[i] :
              trace[i][k].ev = "end" /\ AfterSuccessful(trace[i], "save", k)
         /\ ret[i] = [vals |-> NilMap, err |-> Err("end", i)]

C29_Witness ==
  \E i \in Procs :
    /\ Failed(i)
    /\ Happened(i, "save", TRUE)
    /\ Happened(i, "end", FALSE)
    /\ saved[i] # NoSave

\* C28 (as claimed): whatever its OutputKey and its initial chain's output key,
\* the mapping a RefineDocuments' Call returns on success holds every key of
\* the chain's own OutputKeys().
C28_RefineReturnsDeclaredKeys ==
  (chain.type = "RefineDocuments" /\ Happened(1, "callReturn", TRUE)) =>
    \A k \in Range(chain.outputKeys) : k \in DOMAIN outputs[1]

\* The page contents d[1], ..., d[n] written one after the other with a blank
\* line between neighbours.
BlankLineJoined(d) ==
  LET f[k \in 0..Len(d)] ==
        IF k = 0 THEN ""
        ELSE IF k = 1 THEN d[1]
        ELSE f[k - 1] \o "\n\n" \o d[k]
  IN f[Len(d)]

HistoryNonEmpty(m) == "history" \in DOMAIN m /\ IsText(m["history"])

\* generateQuestion has run to its end or to its nested Call.
QuestionStageEntered ==
  /\ mode = "CallTree"
  /\ chain.type = "ConversationalRetrieval"
  /\ body.stage # "none"

C23_OutputsFollowOptions ==
  (mode = "CallTree" /\ chain.type = "ConversationalRetrieval"
     /\ Happened(1, "callReturn", TRUE)) =>
    /\ chain.resultKey \in DOMAIN outputs[1]
    /\ outputs[1][chain.resultKey] = ret[3].vals[chain.retrievalQAChain.outputKeys[1]]
    /\ "sourceDocuments" \in DOMAIN outputs[1] <=> chain.returnSourceDocuments
    /\ chain.returnSourceDocuments =>
         outputs[1]["sourceDocuments"] = ret[3].vals["sourceDocuments"]
    /\ "generatedQuestion" \in DOMAIN outputs[1] <=> chain.returnGeneratedQuestion
    /\ chain.returnGeneratedQuestion => outputs[1]["generatedQuestion"] = body.res
    /\ DOMAIN outputs[1] = Range(chain.outputKeys)
    /\ Succeeded(1) => ret[1].vals = outputs[1]

C23_Witness ==
  /\ mode = "CallTree"
  /\ chain.type = "ConversationalRetrieval"
  /\ chain.returnSourceDocuments
  /\ ~chain.returnGeneratedQuestion
  /\ Succeeded(1)
  /\ DOMAIN ret[1].vals = {"answer", "sourceDocuments"}
  /\ ret[1].vals["answer"] = "t1"
  /\ ret[1].vals["sourceDocuments"] = "#docs"

\* Stage 1 has ended with a standalone question: the question as it stands
\* under an empty history, else the output of the condensing chain's Call.
QuestionStageSucceeded ==
  \/ /\ HistoryIsEmpty(inputs[1])
     /\ pc[2] = "idle"
     /\ GetString(inputs[1], chain.inputKeys[1]).err = NoErr
     /\ body.res = inputs[1][chain.inputKeys[1]]
  \/ /\ Succeeded(2)
     /\ body.res = ret[2].vals[chain.condenseQuestionChain.outputKeys[1]]

\* Stage 1 has ended with an error.
QuestionStageFailed ==
  \/ Failed(2)
  \/ /\ body.stage = "done"
     /\ HistoryIsEmpty(inputs[1])
     /\ GetString(inputs[1], chain.inputKeys[1]).err # NoErr

\* C26: ConversationalRetrieval calls its retrieval chain only after stage 1
\* has ended with a standalone question, at most once, and once when its own
\* Call succeeds, and hands it that question and nothing else; when stage 1
\* fails the retrieval chain is not called and the chain's Call returns the
\* error without outputs.
C26_StagesInOrder ==
  (mode = "CallTree" /\ chain.type = "ConversationalRetrieval") =>
    /\ pc[3] # "idle" =>
         /\ QuestionStageSucceeded
         /\ ChainOf(3) = chain.retrievalQAChain
         /\ DOMAIN supplied[3] = {chain.retrievalQAChain.inputKeys[1]}
         /\ supplied[3][chain.retrievalQAChain.inputKeys[1]] = body.res
    /\ Count(trace[3], "start") <= 1
    /\ Count(trace[3], "call") <= 1
    /\ Happened(1, "callReturn", TRUE) => Count(trace[3], "call") = 1
    /\ QuestionStageFailed =>
         /\ pc[3] = "idle"
         /\ trace[3] = <<>>
         /\ body.stage = "waiting" \/ Happened(1, "callReturn", FALSE)
         /\ body.stage = "done" =>
              /\ callErr[1] = (IF Failed(2) THEN ret[2].err ELSE ErrNotAString)
              /\ outputs[1] = NilMap
         /\ Returned(1) => (Failed(1) /\ ret[1].vals = NilMap)

C26_Witness ==
  /\ mode = "CallTree"
  /\ chain.type = "ConversationalRetrieval"
  /\ Succeeded(2)
  /\ ret[2].vals["text"] = "t1"
  /\ Count(trace[3], "call") = 1
  /\ supplied[3] = [k \in {"question"} |-> "t1"]
  /\ Succeeded(3)
  /\ Succeeded(1)

\* Stage 1 failed and Call has returned its error.
C26_WitnessStageOneFails ==
  /\ mode = "CallTree"
  /\ chain.type = "ConversationalRetrieval"
  /\ Failed(2)
  /\ Failed(1)
  /\ pc[3] = "idle"

\* The calls of client.Generate made so far, but for the last, failed with an
\* error the predicate takes for retryable.
EarlierAttemptsRetryable ==
  \A k \in 1..(Len(attempts) - 1) : attempts[k] \in {"429", "500"}

\* The loop stops at the first response, at the first error that is not an
\* API error with status 429 or 500, or at the last of the attempts.
StoppedWhereItShould ==
  LET last == attempts[Len(attempts)] IN
  \/ last = "ok"
  \/ last \in {"400", "net"}
  \/ Len(attempts) = maxRetries

C24_RetryCounts ==
  mode = "Generate" =>
    /\ Len(attempts) <= maxRetries
    /\ EarlierAttemptsRetryable
    /\ genPc = "attempt" => Len(attempts) < maxRetries
    /\ genPc \in {"done", "returned"} => (attempts # <<>> /\ StoppedWhereItShould)
    /\ genPc = "returned" =>
         /\ (genRet.res # "" /\ genRet.err = <<>>) <=> attempts[Len(attempts)] = "ok"
         /\ (genRet.res = "" /\ genRet.err # <<>>) <=> attempts[Len(attempts)] # "ok"
    /\ (maxRetries = 2 /\ genPc = "returned" /\ Len(attempts) >= 2 /\ attempts[1] = "429"
          /\ attempts[2] = "ok") => (Len(attempts) = 2 /\ genRet.res # "")
    /\ (genPc = "returned" /\ attempts[1] \in {"400", "net"}) =>
         (Len(attempts) = 1 /\ genRet.res = "")

\* C24: the retry loop calls the backend until the first response, the first
\* error that is not retryable (any but API status 429 and 500) or the last
\* of MaxRetries attempts, never after one of these, and Generate returns the
\* response when there is one and an error otherwise; Generate always returns.
C24_RetryBoundedAndTerminates ==
  /\ []C24_RetryCounts
  /\ <>(mode = "Generate" => genPc = "returned")

C24_Witness ==
  /\ mode = "Generate"
  /\ maxRetries = 2
  /\ attempts = <<"429", "ok">>
  /\ genPc = "returned"
  /\ genRet.res = "text"
  /\ genRet.err = <<>>

\* C27 (as claimed): once the context handed to Generate is cancelled, the
\* retry loop makes no further call of the backend, and Generate returns the
\* cancellation as its error.
C27_NoAttemptAfterCancellation ==
  [][(mode = "Generate" /\ cancelled) =>
       /\ attempts' = attempts
       /\ genPc' = "returned" => genRet'.err = <<"cancelled">>]_vars

====
